---- MODULE Spec2Model ----
(* Listener selection and serving lifecycle of helper.ExporterHelper          *)
(* (helper/main.go): ListenAndServeHandler -> ListenAndServe ->               *)
(* listenAndServe -> createListener / CreateZitiListener / ServeMultiple,     *)
(* together with the signal watcher goroutines createListener starts.         *)
EXTENDS Integers, Sequences, FiniteSets, TLC

VARIABLES
    cfg,          \* the flag values, immutable after parsing
    pc,           \* position of the main goroutine
    i,            \* index of the address the range loop of listenAndServe is at
    cur,          \* result of net.Listen inside createListener: [l, err]
    listeners,    \* the local slice `listeners` of listenAndServe
    closed,       \* listeners on which Close() has been called
    files,        \* paths at which a socket file exists
    watchers,     \* signal watcher goroutines, in order of registration
    signalled,    \* an interrupt/termination signal has been delivered to a watcher
    registered,   \* paths passed to HandlerSetter, in order
    listenCalls,  \* addresses passed to net.Listen, in order
    activation,   \* outcomes of activation.Listeners(), in order
    zitiCalls,    \* outcomes of CreateZitiListener, in order
    serveCalls,   \* listener slices passed to web.ServeMultiple, in order
    retErr,       \* error returned by listenAndServe
    result,       \* error returned by ListenAndServe
    alive,        \* the process has not terminated
    exitStatus,   \* exit status once terminated
    exitSite      \* the function that terminated the process

vars == <<cfg, pc, i, cur, listeners, closed, files, watchers, signalled,
          registered, listenCalls, activation, zitiCalls, serveCalls,
          retErr, result, alive, exitStatus, exitSite>>

----
(* Bounds *)
MaxAddrs == 2
MaxFds == 2

----
(* Addresses are sequences of characters, so that the classification of      *)
(* createListener is computed on the text.                                   *)
AddrSock == <<"/", "a", ".", "s", "o", "c", "k">>
AddrSocket == <<"/", "b", ".", "s", "o", "c", "k", "e", "t">>
AddrTcp == <<":", "9">>
AddrRelSock == <<"a", ".", "s", "o", "c", "k">>
AddressPool == {AddrSock, AddrSocket, AddrTcp, AddrRelSock}

SuffixSocket == <<".", "s", "o", "c", "k", "e", "t">>
SuffixSock == <<".", "s", "o", "c", "k">>

HasPrefix(s, p) == Len(s) >= Len(p) /\ SubSeq(s, 1, Len(p)) = p
HasSuffix(s, p) == Len(s) >= Len(p) /\ SubSeq(s, Len(s) - Len(p) + 1, Len(s)) = p

IsUnixSocket(address) ==
    HasPrefix(address, <<"/">>)
    /\ (HasSuffix(address, SuffixSocket) \/ HasSuffix(address, SuffixSock))

----
(* Errors are chains: the head is the error itself, the tail what Unwrap     *)
(* returns. The empty chain is nil.                                          *)
Nil == <<>>
ErrServerClosed == <<"http: Server closed">>
WrappedErrServerClosed == <<"serve", "http: Server closed">>
ErrServe == <<"accept failed">>
ErrNoListeners == <<"no listeners configured">>
ErrNoFds == <<"no socket activation file descriptors found">>
ErrActivation == <<"activation failed">>
ErrListen(k) == <<"listen " \o ToString(k)>>

RECURSIVE ErrorsIs(_, _)
ErrorsIsDirect(err, target) == err = target
ErrorsIs(err, target) ==
    IF err = Nil \/ target = Nil THEN err = target
    ELSE IF err = target THEN TRUE
    ELSE ErrorsIs(Tail(err), target)

ServeErrors == {ErrServerClosed, WrappedErrServerClosed, ErrServe}

----
(* Listeners *)
NoListener == [kind |-> "nil", n |-> 0, addr |-> <<>>]
ZitiListener == [kind |-> "ziti", n |-> 0, addr |-> <<>>]
FdListener(j) == [kind |-> "fd", n |-> j, addr |-> <<>>]
AddrListener(k, address) ==
    [kind |-> IF IsUnixSocket(address) THEN "unix" ELSE "tcp", n |-> k, addr |-> address]

Range(s) == {s[k] : k \in 1..Len(s)}
UnixPaths(ls) == {l.addr : l \in {x \in ls : x.kind = "unix"}}

RECURSIVE SeqsUpTo(_, _)
SeqsUpTo(S, n) ==
    IF n = 0 THEN {<<>>}
    ELSE LET shorter == SeqsUpTo(S, n - 1)
         IN  shorter \cup {Append(s, x) : s \in {t \in shorter : Len(t) = n - 1}, x \in S}

----
(* Flag values. A pointer flag is nil or points to a value.                  *)
Configs ==
    [ZitiOnly : BOOLEAN,
     WebSystemdSocket : {"nil", "false", "true"},
     WebListenAddresses : {[nil |-> TRUE, v |-> <<>>]}
                          \cup {[nil |-> FALSE, v |-> s] : s \in SeqsUpTo(AddressPool, MaxAddrs)},
     MetricsPath : {"/metrics", "/", ""},
     LandingPage : BOOLEAN]

Init ==
    /\ cfg \in Configs
    /\ pc = "start"
    /\ i = 0
    /\ cur = [l |-> NoListener, err |-> Nil]
    /\ listeners = <<>>
    /\ closed = {}
    /\ files \in SUBSET {AddrSock}
    /\ watchers = <<>>
    /\ signalled = FALSE
    /\ registered = <<>>
    /\ listenCalls = <<>>
    /\ activation = <<>>
    /\ zitiCalls = <<>>
    /\ serveCalls = <<>>
    /\ retErr = Nil
    /\ result = Nil
    /\ alive = TRUE
    /\ exitStatus = 0
    /\ exitSite = "none"

----
(* The conditions of ListenAndServe and listenAndServe *)
LandingPageAlways == cfg.LandingPage
LandingPageWanted ==
    cfg.MetricsPath # "/" /\ cfg.MetricsPath # "" /\ cfg.LandingPage

IsOnlyListener == cfg.ZitiOnly

NoListenersConfigured ==
    /\ cfg.WebSystemdSocket = "nil"
    /\ (cfg.WebListenAddresses.nil \/ Len(cfg.WebListenAddresses.v) = 0)

UseSystemdSocketNever == FALSE
UseSystemdSocket == cfg.WebSystemdSocket # "nil" /\ cfg.WebSystemdSocket = "true"

(* CreateZitiListener: nil when the identity file is not accessible, a panic *)
(* when the identity cannot be loaded, os.Exit(1) when binding the service   *)
(* fails, a listener otherwise.                                              *)
ZitiOutcomes == {"nil", "panic", "exit", "listener"}

(* The deferred listener.Close() calls of listenAndServe cover the listeners *)
(* createListener returned, not the one CreateZitiListener returned.         *)
DeferredCloseNone(ls) == {}
DeferredClose(ls) == {l \in Range(ls) : l.kind \in {"tcp", "unix"}}

Exit(status, site) == alive' = FALSE /\ exitStatus' = status /\ exitSite' = site

ServeMultiple(ls) == serveCalls' = Append(serveCalls, ls) /\ pc' = "serving"

----
(* ListenAndServe: handler registration *)
HandleMetrics ==
    /\ alive /\ pc = "start"
    /\ \/ /\ registered' = Append(registered, cfg.MetricsPath)
          /\ pc' = "landing"
          /\ UNCHANGED <<alive, exitStatus, exitSite>>
       \/ \* http.Handle panics on an empty pattern
          /\ cfg.MetricsPath = ""
          /\ Exit(2, "HandlerSetter")
          /\ UNCHANGED <<registered, pc>>
    /\ UNCHANGED <<cfg, i, cur, listeners, closed, files, watchers, signalled,
                   listenCalls, activation, zitiCalls, serveCalls, retErr, result>>

HandleLanding ==
    /\ alive /\ pc = "landing"
    /\ IF LandingPageWanted
       THEN \/ \* web.NewLandingPage fails
               /\ Exit(1, "ListenAndServe")
               /\ UNCHANGED <<registered, pc>>
            \/ /\ registered' = Append(registered, "/")
               /\ pc' = "select"
               /\ UNCHANGED <<alive, exitStatus, exitSite>>
       ELSE /\ pc' = "select"
            /\ UNCHANGED <<registered, alive, exitStatus, exitSite>>
    /\ UNCHANGED <<cfg, i, cur, listeners, closed, files, watchers, signalled,
                   listenCalls, activation, zitiCalls, serveCalls, retErr, result>>

----
(* listenAndServe: the exclusive branch *)
ZitiOnlyServeUnchecked ==
    /\ alive /\ pc = "select"
    /\ IsOnlyListener
    /\ \E outcome \in ZitiOutcomes :
        /\ zitiCalls' = Append(zitiCalls, outcome)
        /\ CASE outcome = "listener" ->
                  ServeMultiple(<<ZitiListener>>) /\ UNCHANGED <<alive, exitStatus, exitSite>>
             [] outcome = "nil" ->
                  ServeMultiple(<<NoListener>>) /\ UNCHANGED <<alive, exitStatus, exitSite>>
             [] outcome = "exit" -> Exit(1, "CreateZitiListener") /\ UNCHANGED <<pc, serveCalls>>
             [] outcome = "panic" -> Exit(2, "CreateZitiListener") /\ UNCHANGED <<pc, serveCalls>>
    /\ UNCHANGED <<cfg, i, cur, listeners, closed, files, watchers, signalled,
                   registered, listenCalls, activation, retErr, result>>

ZitiOnlyServe ==
    /\ alive /\ pc = "select"
    /\ IsOnlyListener
    /\ \E outcome \in ZitiOutcomes :
        /\ zitiCalls' = Append(zitiCalls, outcome)
        /\ CASE outcome = "listener" ->
                  ServeMultiple(<<ZitiListener>>) /\ UNCHANGED <<alive, exitStatus, exitSite>>
             [] outcome = "nil" -> Exit(1, "listenAndServe") /\ UNCHANGED <<pc, serveCalls>>
             [] outcome = "exit" -> Exit(1, "CreateZitiListener") /\ UNCHANGED <<pc, serveCalls>>
             [] outcome = "panic" -> Exit(2, "CreateZitiListener") /\ UNCHANGED <<pc, serveCalls>>
    /\ UNCHANGED <<cfg, i, cur, listeners, closed, files, watchers, signalled,
                   registered, listenCalls, activation, retErr, result>>

(* listenAndServe: nothing configured *)
ReturnNoListeners ==
    /\ alive /\ pc = "select"
    /\ ~IsOnlyListener
    /\ NoListenersConfigured
    /\ retErr' = ErrNoListeners
    /\ pc' = "returned"
    /\ UNCHANGED <<cfg, i, cur, listeners, closed, files, watchers, signalled,
                   registered, listenCalls, activation, zitiCalls, serveCalls,
                   result, alive, exitStatus, exitSite>>

(* listenAndServe: socket activation. activation.Listeners() fails or returns *)
(* the listeners of the inherited descriptors.                               *)
SystemdServe ==
    /\ alive /\ pc = "select"
    /\ ~IsOnlyListener
    /\ ~NoListenersConfigured
    /\ UseSystemdSocket
    /\ \/ /\ activation' = Append(activation, [fds |-> <<>>, err |-> ErrActivation])
          /\ retErr' = ErrActivation
          /\ pc' = "returned"
          /\ UNCHANGED serveCalls
       \/ \E n \in 0..MaxFds :
            LET fds == [j \in 1..n |-> FdListener(j)] IN
            /\ activation' = Append(activation, [fds |-> fds, err |-> Nil])
            /\ IF Len(fds) < 1
               THEN retErr' = ErrNoFds /\ pc' = "returned" /\ UNCHANGED serveCalls
               ELSE ServeMultiple(fds) /\ UNCHANGED retErr
    /\ UNCHANGED <<cfg, i, cur, listeners, closed, files, watchers, signalled,
                   registered, listenCalls, zitiCalls, result, alive, exitStatus, exitSite>>

(* listenAndServe: address mode. make() dereferences WebListenAddresses.     *)
MakeListeners ==
    /\ alive /\ pc = "select"
    /\ ~IsOnlyListener
    /\ ~NoListenersConfigured
    /\ ~UseSystemdSocket
    /\ IF cfg.WebListenAddresses.nil
       THEN Exit(2, "listenAndServe") /\ UNCHANGED <<pc, i, listeners>>
       ELSE /\ listeners' = <<>>
            /\ i' = 1
            /\ pc' = "loop"
            /\ UNCHANGED <<alive, exitStatus, exitSite>>
    /\ UNCHANGED <<cfg, cur, closed, files, watchers, signalled, registered,
                   listenCalls, activation, zitiCalls, serveCalls, retErr, result>>

(* createListener up to net.Listen: classification, signal.Notify and the    *)
(* watcher goroutine of a unix socket path.                                  *)
CreateListenerBegin ==
    /\ alive /\ pc = "loop"
    /\ i <= Len(cfg.WebListenAddresses.v)
    /\ LET address == cfg.WebListenAddresses.v[i] IN
       watchers' = IF IsUnixSocket(address)
                   THEN Append(watchers, [addr |-> address, st |-> "waiting"])
                   ELSE watchers
    /\ pc' = "listen"
    /\ UNCHANGED <<cfg, i, cur, listeners, closed, files, signalled, registered,
                   listenCalls, activation, zitiCalls, serveCalls, retErr, result,
                   alive, exitStatus, exitSite>>

(* net.Listen: binding a unix path creates the socket file and fails when a  *)
(* file is already there; any bind may fail.                                 *)
NetListen ==
    /\ alive /\ pc = "listen"
    /\ LET address == cfg.WebListenAddresses.v[i] IN
       /\ listenCalls' = Append(listenCalls, address)
       /\ \/ /\ cur' = [l |-> NoListener, err |-> ErrListen(i)]
             /\ UNCHANGED files
          \/ /\ ~(IsUnixSocket(address) /\ address \in files)
             /\ cur' = [l |-> AddrListener(i, address), err |-> Nil]
             /\ files' = IF IsUnixSocket(address) THEN files \cup {address} ELSE files
    /\ pc' = "deferred"
    /\ UNCHANGED <<cfg, i, listeners, closed, watchers, signalled, registered,
                   activation, zitiCalls, serveCalls, retErr, result, alive, exitStatus, exitSite>>

(* What the deferred function of createListener leaves of the socket files.  *)
AfterDeferredRemove(address, fs) ==
    IF IsUnixSocket(address) THEN fs \ {address} ELSE fs

(* The rest of createListener (its deferred os.Remove) and the loop body of  *)
(* listenAndServe: return the error, running the deferred Close calls, or    *)
(* append the listener.                                                      *)
CreateListenerReturn ==
    /\ alive /\ pc = "deferred"
    /\ LET address == cfg.WebListenAddresses.v[i]
           left == AfterDeferredRemove(address, files)
       IN  IF cur.err # Nil
           THEN /\ retErr' = cur.err
                /\ closed' = closed \cup DeferredClose(listeners)
                /\ files' = left \ UnixPaths(DeferredClose(listeners))
                /\ pc' = "returned"
                /\ UNCHANGED <<i, listeners>>
           ELSE /\ listeners' = Append(listeners, cur.l)
                /\ files' = left
                /\ i' = i + 1
                /\ pc' = "loop"
                /\ UNCHANGED <<retErr, closed>>
    /\ UNCHANGED <<cfg, cur, watchers, signalled, registered, listenCalls,
                   activation, zitiCalls, serveCalls, result, alive, exitStatus, exitSite>>

(* After the loop: CreateZitiListener, then web.ServeMultiple. A panic runs  *)
(* the deferred Close calls, os.Exit does not.                               *)
ZitiAppendSkipAll ==
    /\ alive /\ pc = "loop"
    /\ i > Len(cfg.WebListenAddresses.v)
    /\ \E outcome \in ZitiOutcomes :
        /\ zitiCalls' = Append(zitiCalls, outcome)
        /\ ServeMultiple(listeners)
        /\ UNCHANGED <<listeners, closed, files, alive, exitStatus, exitSite>>
    /\ UNCHANGED <<cfg, i, cur, watchers, signalled, registered, listenCalls,
                   activation, retErr, result>>

ZitiAppendServe ==
    /\ alive /\ pc = "loop"
    /\ i > Len(cfg.WebListenAddresses.v)
    /\ \E outcome \in ZitiOutcomes :
        /\ zitiCalls' = Append(zitiCalls, outcome)
        /\ CASE outcome = "listener" ->
                  /\ listeners' = Append(listeners, ZitiListener)
                  /\ ServeMultiple(listeners')
                  /\ UNCHANGED <<closed, files, alive, exitStatus, exitSite>>
             [] outcome = "nil" ->
                  /\ ServeMultiple(listeners)
                  /\ UNCHANGED <<listeners, closed, files, alive, exitStatus, exitSite>>
             [] outcome = "exit" ->
                  /\ Exit(1, "CreateZitiListener")
                  /\ UNCHANGED <<listeners, closed, files, pc, serveCalls>>
             [] outcome = "panic" ->
                  /\ closed' = closed \cup DeferredClose(listeners)
                  /\ files' = files \ UnixPaths(DeferredClose(listeners))
                  /\ Exit(2, "CreateZitiListener")
                  /\ UNCHANGED <<listeners, pc, serveCalls>>
    /\ UNCHANGED <<cfg, i, cur, watchers, signalled, registered, listenCalls,
                   activation, retErr, result>>

----
(* web.ServeMultiple returns: nil at once for an empty slice, otherwise the  *)
(* first error of a server. listenAndServe returns it, running its deferred  *)
(* Close calls.                                                              *)
ServeMultipleReturn ==
    /\ alive /\ pc = "serving"
    /\ LET ls == serveCalls[Len(serveCalls)] IN
       \E err \in (IF ls = <<>> THEN {Nil} ELSE ServeErrors) :
          retErr' = err
    /\ closed' = closed \cup DeferredClose(listeners)
    /\ files' = files \ UnixPaths(DeferredClose(listeners))
    /\ pc' = "returned"
    /\ UNCHANGED <<cfg, i, cur, listeners, watchers, signalled, registered,
                   listenCalls, activation, zitiCalls, serveCalls, result,
                   alive, exitStatus, exitSite>>

(* ListenAndServe: the graceful-shutdown sentinel becomes nil.               *)
ListenAndServeReturn ==
    /\ alive /\ pc = "returned"
    /\ result' = IF ~ErrorsIs(retErr, ErrServerClosed) THEN retErr ELSE Nil
    /\ pc' = "handler"
    /\ UNCHANGED <<cfg, i, cur, listeners, closed, files, watchers, signalled,
                   registered, listenCalls, activation, zitiCalls, serveCalls,
                   retErr, alive, exitStatus, exitSite>>

(* ListenAndServeHandler: os.Exit(1) on an error, a normal return otherwise. *)
ListenAndServeHandlerReturn ==
    /\ alive /\ pc = "handler"
    /\ IF result # Nil
       THEN Exit(1, "ListenAndServeHandler") /\ UNCHANGED pc
       ELSE pc' = "done" /\ UNCHANGED <<alive, exitStatus, exitSite>>
    /\ UNCHANGED <<cfg, i, cur, listeners, closed, files, watchers, signalled,
                   registered, listenCalls, activation, zitiCalls, serveCalls,
                   retErr, result>>

----
(* The signal watchers of createListener. A delivered signal is put into the *)
(* channel of every watcher that is registered and has room for it.          *)
Signal ==
    /\ alive
    /\ \E w \in 1..Len(watchers) : watchers[w].st = "waiting"
    /\ watchers' = [w \in 1..Len(watchers) |->
                      IF watchers[w].st = "waiting"
                      THEN [watchers[w] EXCEPT !.st = "pending"]
                      ELSE watchers[w]]
    /\ signalled' = TRUE
    /\ UNCHANGED <<cfg, pc, i, cur, listeners, closed, files, registered,
                   listenCalls, activation, zitiCalls, serveCalls, retErr, result,
                   alive, exitStatus, exitSite>>

(* <-c; os.Remove(address) *)
WatcherRemove(w) ==
    /\ alive
    /\ watchers[w].st = "pending"
    /\ files' = files \ {watchers[w].addr}
    /\ watchers' = [watchers EXCEPT ![w].st = "removed"]
    /\ UNCHANGED <<cfg, pc, i, cur, listeners, closed, signalled, registered,
                   listenCalls, activation, zitiCalls, serveCalls, retErr, result,
                   alive, exitStatus, exitSite>>

(* os.Exit(1) *)
WatcherExit(w) ==
    /\ alive
    /\ watchers[w].st = "removed"
    /\ Exit(1, "watcher")
    /\ UNCHANGED <<cfg, pc, i, cur, listeners, closed, files, watchers, signalled,
                   registered, listenCalls, activation, zitiCalls, serveCalls,
                   retErr, result>>

----
Next ==
    \/ HandleMetrics
    \/ HandleLanding
    \/ ZitiOnlyServe
    \/ ReturnNoListeners
    \/ SystemdServe
    \/ MakeListeners
    \/ CreateListenerBegin
    \/ NetListen
    \/ CreateListenerReturn
    \/ ZitiAppendServe
    \/ ServeMultipleReturn
    \/ ListenAndServeReturn
    \/ ListenAndServeHandlerReturn
    \/ Signal
    \/ \E w \in 1..Len(watchers) : WatcherRemove(w)
    \/ \E w \in 1..Len(watchers) : WatcherExit(w)

Spec == Init /\ [][Next]_vars

----
(* Properties *)
Addresses == cfg.WebListenAddresses.v
AddressesEmpty == cfg.WebListenAddresses.nil \/ Len(cfg.WebListenAddresses.v) = 0
AddressListeners == [k \in 1..Len(Addresses) |-> AddrListener(k, Addresses[k])]
NothingOpened ==
    listenCalls = <<>> /\ activation = <<>> /\ zitiCalls = <<>> /\ serveCalls = <<>>
NoDuplicates(s) == \A a, b \in 1..Len(s) : s[a] = s[b] => a = b

(* C1: in exclusive mode no address is opened, no socket-activation          *)
(* descriptor is retrieved and no watcher is registered; when the provider   *)
(* returns no listener the process exits with status 1 and ServeMultiple is  *)
(* never entered; ServeMultiple is entered with exactly the one provider     *)
(* listener otherwise.                                                       *)
C1_ExclusiveOnly ==
    cfg.ZitiOnly =>
        /\ listenCalls = <<>> /\ activation = <<>> /\ watchers = <<>>
        /\ Len(zitiCalls) <= 1
        /\ zitiCalls = <<"nil">> =>
              ~alive /\ exitStatus = 1 /\ exitSite = "listenAndServe" /\ serveCalls = <<>>
        /\ (zitiCalls # <<>> /\ zitiCalls # <<"listener">>) => ~alive /\ serveCalls = <<>>
        /\ zitiCalls = <<"listener">> => serveCalls = << <<ZitiListener>> >>
        /\ serveCalls # <<>> => zitiCalls = <<"listener">>

C1_Witness ==
    /\ cfg.ZitiOnly
    /\ cfg.WebSystemdSocket = "true"
    /\ ~AddressesEmpty
    /\ zitiCalls = <<"nil">>
    /\ ~alive /\ exitStatus = 1

(* C2: with no exclusive extension, no address (list absent or empty) and    *)
(* socket activation absent or false, listenAndServe returns ErrNoListeners  *)
(* without opening a listener, invoking the provider or serving.             *)
C2_NoListenersError ==
    (~cfg.ZitiOnly /\ AddressesEmpty /\ cfg.WebSystemdSocket \in {"nil", "false"}) =>
        /\ NothingOpened
        /\ pc \in {"returned", "handler", "done"} => retErr = ErrNoListeners

(* C3: every listener slice handed to ServeMultiple is non-empty.            *)
C3_ServedNonEmpty ==
    \A k \in 1..Len(serveCalls) : serveCalls[k] # <<>>

(* C4: in address mode, when opening address k fails, listenAndServe returns *)
(* that error with the listeners of addresses 1..k-1 closed, no later        *)
(* address opened, the provider not invoked and ServeMultiple not entered.   *)
C4_OpenFailureAborts ==
    cur.err # Nil =>
        /\ cur.err = ErrListen(i)
        /\ listenCalls = SubSeq(Addresses, 1, i)
        /\ zitiCalls = <<>> /\ serveCalls = <<>>
        /\ pc \in {"deferred", "returned", "handler"}
        /\ pc \in {"returned", "handler"} =>
              /\ retErr = cur.err
              /\ \A k \in 1..(i - 1) : AddrListener(k, Addresses[k]) \in closed

C4_Witness ==
    /\ cur.err # Nil
    /\ i = MaxAddrs
    /\ pc = "returned"
    /\ \A k \in 1..(i - 1) : AddrListener(k, Addresses[k]) \in closed

(* C5 as stated: in address mode the provider is invoked once after the      *)
(* addresses and, whatever it does, ServeMultiple is entered.                *)
C5_ProviderNeverFatal ==
    (~cfg.ZitiOnly /\ ~UseSystemdSocket /\ zitiCalls # <<>>) =>
        /\ Len(zitiCalls) = 1
        /\ Len(serveCalls) = 1

(* C5 amended: in address mode the provider is invoked once after all the    *)
(* addresses were opened; a nil result is skipped and ServeMultiple gets the *)
(* address listeners, a listener is appended to them; a failure to load the  *)
(* identity (panic, status 2) or to bind the service (os.Exit(1)) terminates *)
(* the process before ServeMultiple.                                         *)
C5_ProviderOutcomes ==
    (~cfg.ZitiOnly /\ ~UseSystemdSocket /\ zitiCalls # <<>>) =>
        /\ Len(zitiCalls) = 1
        /\ listenCalls = Addresses
        /\ zitiCalls[1] = "nil" => serveCalls = <<AddressListeners>>
        /\ zitiCalls[1] = "listener" =>
              serveCalls = <<Append(AddressListeners, ZitiListener)>>
        /\ zitiCalls[1] = "exit" =>
              /\ serveCalls = <<>> /\ ~alive /\ exitStatus = 1
              /\ exitSite = "CreateZitiListener"
        /\ zitiCalls[1] = "panic" =>
              /\ serveCalls = <<>> /\ ~alive /\ exitStatus = 2
              /\ exitSite = "CreateZitiListener"

C5_Witness ==
    /\ ~cfg.ZitiOnly /\ ~UseSystemdSocket
    /\ Len(Addresses) = MaxAddrs
    /\ zitiCalls = <<"nil">>
    /\ pc = "serving"
    /\ serveCalls = <<AddressListeners>>

(* C6: with socket activation requested and no exclusive extension no        *)
(* address is opened and the provider is not invoked; listenAndServe returns *)
(* the retrieval error, or the distinct zero-descriptor error, without       *)
(* serving, or ServeMultiple gets exactly the inherited listeners.           *)
C6_SystemdExclusive ==
    (~cfg.ZitiOnly /\ cfg.WebSystemdSocket = "true") =>
        /\ listenCalls = <<>> /\ zitiCalls = <<>> /\ watchers = <<>>
        /\ Len(activation) <= 1
        /\ activation = <<>> => serveCalls = <<>>
        /\ activation # <<>> =>
              LET a == activation[1] IN
              /\ a.err # Nil =>
                    serveCalls = <<>> /\ retErr = a.err /\ pc \in {"returned", "handler"}
              /\ (a.err = Nil /\ a.fds = <<>>) =>
                    /\ serveCalls = <<>> /\ retErr = ErrNoFds /\ retErr # ErrActivation
                    /\ pc \in {"returned", "handler"}
              /\ (a.err = Nil /\ a.fds # <<>>) => serveCalls = <<a.fds>>

C6_Witness ==
    /\ ~cfg.ZitiOnly /\ cfg.WebSystemdSocket = "true"
    /\ Len(Addresses) = MaxAddrs
    /\ pc = "serving"
    /\ Len(activation) = 1
    /\ Len(activation[1].fds) = MaxFds
    /\ serveCalls = <<activation[1].fds>>

(* C7: once a signal has reached a watcher, the process terminates with a    *)
(* non-zero status and the watched socket file does not exist at that time,  *)
(* under every interleaving.                                                 *)
C7_SignalRemovesSocket ==
    (signalled /\ ~alive) =>
        /\ exitStatus # 0
        /\ \A w \in 1..Len(watchers) :
              watchers[w].st # "waiting" => watchers[w].addr \notin files

(* C8: while a unix-domain listener is being served its socket file exists   *)
(* at the configured path.                                                   *)
C8_SocketFileWhileServing ==
    (alive /\ pc = "serving") =>
        \A l \in Range(serveCalls[Len(serveCalls)]) :
            l.kind = "unix" => l.addr \in files

(* C9: ListenAndServe returns nil for http.ErrServerClosed, also wrapped,    *)
(* and ListenAndServeHandler then returns normally; every other error is     *)
(* returned unchanged and ListenAndServeHandler exits with status 1.         *)
C9_GracefulShutdown ==
    LET graceful == retErr \in {ErrServerClosed, WrappedErrServerClosed} IN
    /\ pc \in {"handler", "done"} =>
          /\ graceful => result = Nil
          /\ ~graceful => result = retErr
    /\ pc = "done" => (graceful \/ retErr = Nil) /\ exitSite # "ListenAndServeHandler"
    /\ exitSite = "ListenAndServeHandler" =>
          ~graceful /\ retErr # Nil /\ exitStatus = 1 /\ pc = "handler"
    /\ (pc = "handler" /\ ~graceful /\ retErr # Nil /\ ~alive) => exitStatus = 1

C9_Witness ==
    /\ pc = "done"
    /\ retErr = WrappedErrServerClosed
    /\ result = Nil
    /\ alive

(* C10: the metrics path, and "/" only when the metrics path is neither "/"  *)
(* nor empty and the landing page is enabled, are registered before any      *)
(* listener is opened or served; nothing is registered later and no path is  *)
(* registered twice.                                                         *)
C10_RegisteredFirst ==
    LET expected ==
            IF cfg.MetricsPath # "/" /\ cfg.MetricsPath # "" /\ cfg.LandingPage
            THEN <<cfg.MetricsPath, "/">>
            ELSE <<cfg.MetricsPath>>
    IN  /\ NoDuplicates(registered)
        /\ pc \in {"start", "landing"} => NothingOpened /\ watchers = <<>>
        /\ pc \notin {"start", "landing"} => registered = expected

C10_Witness ==
    /\ pc = "serving"
    /\ registered = <<"/metrics", "/">>
    /\ listenCalls # <<>>

====
